---- MODULE Spec2Model ----
(***************************************************************************)
(* Task lifecycle engine of the task-manage backend: the Express handlers  *)
(* of routes/task.routes.js, the isTaskCreatorOrAdmin / hasRole middleware *)
(* and the Task / Notification collections they read and write.            *)
(*                                                                         *)
(* The store is the pair of collections (tasks, notifications) with the    *)
(* two id allocators.  Every handler is a pure operator from a store and a *)
(* request to a store and a response; the sequential specifications apply  *)
(* a handler in one step, the interleaved specifications apply the same    *)
(* operators one await at a time.                                          *)
(***************************************************************************)
EXTENDS Integers, Sequences, FiniteSets, TLC

VARIABLES
    tasks,          \* Task collection: task id -> document
    notifications,  \* Notification collection: notification id -> document
    nextId,         \* next Task _id to be allocated (ids are never reused)
    nextNid,        \* next Notification _id to be allocated
    down,           \* the Notification collection rejects writes (store failure)
    reqs,           \* requests in flight: slot -> request record (interleaved runs)
    last            \* the request served last and its response

vars == <<tasks, notifications, nextId, nextNid, down, reqs, last>>

(***************************************************************************)
(* Bounds of the model.                                                    *)
(***************************************************************************)
MaxTasks == 1      \* Task documents ever created in a run
MaxNotes == 1      \* Notification documents ever created in a run
MaxListTasks == 1  \* Task documents ever created in a list-filter run
MaxPageTasks == 3  \* Task documents ever created in a pagination run
MaxPage == 3       \* largest page number requested
MaxLimit == 2      \* largest explicit page size requested
MaxInFlight == 2
MaxInbox == 2   \* concurrent requests in an interleaved run

(***************************************************************************)
(* Users.  The identity provider resolves a token to a user document; the  *)
(* three users cover the three roles.  Ghost is a well-formed ObjectId     *)
(* that names no user document.                                            *)
(***************************************************************************)
Users == {"a", "m", "u"}
Ghost == "g"
Null == "null"           \* null / undefined reference
UserIds == Users \cup {Ghost}

Role(u) == CASE u = "a" -> "admin"
             [] u = "m" -> "manager"
             [] OTHER   -> "user"

NoTask == 0              \* null Task reference (relatedTask: null)
NoDate == 0              \* undefined Date field
InvalidDate == -1        \* new Date(undefined): a Date whose time value is NaN

StatusEnum == {"todo", "in-progress", "review", "completed"}
PriorityEnum == {"low", "medium", "high", "urgent"}
RecurringEnum == {"daily", "weekly", "monthly", "none"}
NotificationTypes == {"task-assigned", "task-updated", "task-completed",
                      "task-deleted", "task-reminder"}

TitleMaxLen == 100
DescriptionMaxLen == 1000

\* The paths of taskSchema; any other key of a request body is dropped by
\* mongoose (strict mode).
TaskKeys == {"title", "description", "status", "priority", "dueDate", "createdBy",
             "assignedTo", "tags", "isRecurring", "recurringType", "recurringEndDate"}

\* Schema defaults applied by new Task(data) to the paths data leaves out.
SchemaDefault(k) ==
    CASE k = "status" -> "todo"
      [] k = "priority" -> "medium"
      [] k = "isRecurring" -> FALSE
      [] k = "recurringType" -> "none"
      [] k = "dueDate" -> NoDate
      [] k = "recurringEndDate" -> NoDate
      [] k = "assignedTo" -> Null
      [] k = "createdBy" -> Null
      [] k = "tags" -> <<>>
      [] OTHER -> <<>>      \* title, description: no value

(***************************************************************************)
(* Strings are sequences of characters.                                    *)
(***************************************************************************)
RECURSIVE TrimLeft(_)
TrimLeft(s) == IF s # <<>> /\ Head(s) = " " THEN TrimLeft(Tail(s)) ELSE s

RECURSIVE TrimRight(_)
TrimRight(s) == IF s # <<>> /\ s[Len(s)] = " "
                THEN TrimRight(SubSeq(s, 1, Len(s) - 1)) ELSE s

Trim(s) == TrimRight(TrimLeft(s))

LowerChar(c) == CASE c = "A" -> "a"
                  [] c = "B" -> "b"
                  [] OTHER -> c

Lower(s) == [i \in 1..Len(s) |-> LowerChar(s[i])]

\* { $regex: pat, $options: 'i' } for a pattern of literal characters:
\* the pattern occurs somewhere in the text, letter case ignored.
RegexMatchI(text, pat) ==
    \E i \in 0..(Len(text) - Len(pat)) :
        Lower(SubSeq(text, i + 1, i + Len(pat))) = Lower(pat)

(***************************************************************************)
(* Dates are day numbers of the year 2024 (1 = 2024-01-01); the time of    *)
(* day is carried along unchanged by setDate / setMonth and is left out.   *)
(***************************************************************************)
MonthStart(m) ==   \* day number of the first day of month m (13 = 2025-01)
    CASE m = 1 -> 1    [] m = 2 -> 32   [] m = 3 -> 61   [] m = 4 -> 92
      [] m = 5 -> 122  [] m = 6 -> 153  [] m = 7 -> 183  [] m = 8 -> 214
      [] m = 9 -> 245  [] m = 10 -> 275 [] m = 11 -> 306 [] m = 12 -> 336
      [] OTHER -> 367

MonthOf(d) == CHOOSE m \in 1..12 : MonthStart(m) <= d /\ d < MonthStart(m + 1)
DayOfMonth(d) == d - MonthStart(MonthOf(d)) + 1

\* new Date(v) reading an undefined value as the epoch, like new Date(null).
NewDateEpoch(v) == v

\* new Date(v): an undefined value gives an invalid Date.
NewDate(v) == IF v = NoDate THEN InvalidDate ELSE v
\* d.setDate(d.getDate() + n); NaN stays NaN.
AddDays(d, n) == IF d = InvalidDate THEN InvalidDate ELSE d + n
\* d.setMonth(d.getMonth() + 1): same day of the next month, overflowing
\* into the month after when the next month is shorter.
AddMonth(d) == IF d = InvalidDate THEN InvalidDate
               ELSE MonthStart(MonthOf(d) + 1) + DayOfMonth(d) - 1
\* a > b on Dates; any comparison with NaN is false.
DateAfter(a, b) == a # InvalidDate /\ b # InvalidDate /\ a > b

(***************************************************************************)
(* The store and its documents.                                            *)
(***************************************************************************)
Store(t, n, i, j, d) ==
    [tasks |-> t, notifications |-> n, nextId |-> i, nextNid |-> j, down |-> d]

Has(body, k) == k \in DOMAIN body

Range(seq) == {seq[i] : i \in 1..Len(seq)}

\* User.findById behind populate('createdBy') / populate('assignedTo'): the
\* referenced user document, or null when the id names no user.
Populate(uid) == IF uid \in Users THEN uid ELSE Null

\* Setters of taskSchema: title and description are trimmed on assignment.
CastPath(k, v) == IF k \in {"title", "description"} THEN Trim(v) ELSE v

\* new Task(data): the schema paths of data, defaults for the rest.
NewTaskDoc(data) ==
    [k \in TaskKeys |-> IF Has(data, k) THEN CastPath(k, data[k]) ELSE SchemaDefault(k)]

\* Validation run by task.save(): required, maxlength and enum validators.
SchemaValid(doc) ==
    /\ doc.title # <<>>
    /\ Len(doc.title) <= TitleMaxLen
    /\ Len(doc.description) <= DescriptionMaxLen
    /\ doc.status \in StatusEnum
    /\ doc.priority \in PriorityEnum
    /\ doc.recurringType \in RecurringEnum
    /\ doc.createdBy # Null
    /\ doc.dueDate # InvalidDate
    /\ doc.recurringEndDate # InvalidDate

\* Notification document; the message text is a non-empty template string
\* and is not represented.
NotificationDoc(type, sender, recipient, taskId) ==
    [type |-> type, sender |-> sender, recipient |-> recipient,
     relatedTask |-> taskId, isRead |-> FALSE]

\* createNotification: persists one Notification; a save that fails, in
\* validation (no recipient, unknown type) or in the store, is logged and
\* swallowed.
createNotification(st, type, sender, recipient, taskId) ==
    IF st.down \/ recipient = Null \/ type \notin NotificationTypes
    THEN st
    ELSE [st EXCEPT
            !.notifications = [n \in DOMAIN st.notifications \cup {st.nextNid} |->
                                  IF n = st.nextNid
                                  THEN NotificationDoc(type, sender, recipient, taskId)
                                  ELSE st.notifications[n]],
            !.nextNid = st.nextNid + 1]

\* task.save() of a new document.
InsertTask(st, doc) ==
    [st EXCEPT
        !.tasks = [i \in DOMAIN st.tasks \cup {st.nextId} |->
                      IF i = st.nextId THEN doc ELSE st.tasks[i]],
        !.nextId = st.nextId + 1]

(***************************************************************************)
(* createRecurringTask(task, recurringType)                                *)
(***************************************************************************)
\* The switch over recurringType: the next due date, or NoDate for the
\* default branch (return null).
NextDueDate(dueDate, recurringType) ==
    CASE recurringType = "daily" -> AddDays(NewDate(dueDate), 1)
      [] recurringType = "weekly" -> AddDays(NewDate(dueDate), 7)
      [] recurringType = "monthly" -> AddMonth(NewDate(dueDate))
      [] OTHER -> NoDate

\* "Check if the recurring end date has been reached".
SeriesEnded(task, newDueDate) ==
    task.recurringEndDate # NoDate /\ DateAfter(newDueDate, NewDate(task.recurringEndDate))

\* A clone that keeps the status of the source.
RecurringCloneWithStatus(task, newDueDate) ==
    NewTaskDoc([k \in TaskKeys |-> IF k = "dueDate" THEN newDueDate ELSE task[k]])

\* The clone that is saved.
RecurringClone(task, newDueDate) ==
    NewTaskDoc([title |-> task.title, description |-> task.description,
                priority |-> task.priority, createdBy |-> task.createdBy,
                assignedTo |-> task.assignedTo, tags |-> task.tags,
                isRecurring |-> task.isRecurring, recurringType |-> task.recurringType,
                recurringEndDate |-> task.recurringEndDate,
                dueDate |-> newDueDate, status |-> "todo"])

\* Result: the store after the call and the id of the new task (NoTask for
\* null).  A save rejected by validation throws into the catch: null.
createRecurringTask(st, task, recurringType) ==
    LET newDueDate == NextDueDate(task.dueDate, recurringType)
        clone == RecurringClone(task, newDueDate)
    IN  IF recurringType \notin {"daily", "weekly", "monthly"}
        THEN [st |-> st, newTask |-> NoTask]
        ELSE IF SeriesEnded(task, newDueDate)
        THEN [st |-> st, newTask |-> NoTask]
        ELSE IF ~SchemaValid(clone)
        THEN [st |-> st, newTask |-> NoTask]
        ELSE [st |-> InsertTask(st, clone), newTask |-> st.nextId]

(***************************************************************************)
(* Middleware of middleware/auth.middleware.js.                            *)
(***************************************************************************)
\* hasRole(...roles): the role gate.
hasRole(user, roles) == Role(user) \in roles

\* canModify without the role test on the assignee: any assignee may modify.
canModifyAnyAssignee(user, task) ==
    \/ Role(user) = "admin"
    \/ task.createdBy = user
    \/ task.assignedTo = user

\* The condition under which isTaskCreatorOrAdmin attaches the task and
\* calls next().
canModify(user, task) ==
    \/ Role(user) = "admin"
    \/ task.createdBy = user
    \/ (Role(user) = "manager" /\ task.assignedTo = user)

\* isTaskCreatorOrAdmin answering a denied principal as it answers an absent
\* task.
isTaskCreatorOrAdminHiding(st, user, id) ==
    IF id \notin DOMAIN st.tasks THEN 404
    ELSE IF canModify(user, st.tasks[id]) THEN 0
    ELSE 404

\* isTaskCreatorOrAdmin: 404 for an absent task, 403 for a denied principal,
\* 0 for next().
isTaskCreatorOrAdmin(st, user, id) ==
    IF id \notin DOMAIN st.tasks THEN 404
    ELSE IF canModify(user, st.tasks[id]) THEN 0
    ELSE 403

(***************************************************************************)
(* express-validator chains of the create and update routes.               *)
(***************************************************************************)
EnumsValid(body) ==
    /\ Has(body, "status") => body.status \in StatusEnum
    /\ Has(body, "priority") => body.priority \in PriorityEnum
    /\ Has(body, "recurringType") => body.recurringType \in RecurringEnum

\* body('title').trim().notEmpty(): a missing title is the empty string.
ValidCreateBody(body) ==
    /\ Has(body, "title") /\ Trim(body.title) # <<>>
    /\ EnumsValid(body)

\* body('title').optional().trim().notEmpty()
ValidUpdateBody(body) ==
    /\ Has(body, "title") => Trim(body.title) # <<>>
    /\ EnumsValid(body)

(***************************************************************************)
(* POST /tasks                                                             *)
(***************************************************************************)
\* taskData = { createdBy: req.user._id, ...req.body }: the body's createdBy
\* wins.
CreateTaskDataBodyLast(user, body) ==
    [k \in DOMAIN body \cup {"createdBy"} |-> IF Has(body, k) THEN body[k] ELSE user]

\* taskData = { ...req.body, createdBy: req.user._id }
CreateTaskData(user, body) ==
    [k \in DOMAIN body \cup {"createdBy"} |-> IF k = "createdBy" THEN user ELSE body[k]]

\* CreateShouldNotify without the comparison with the creator.
CreateShouldNotifyAnyAssignee(task, user) == task.assignedTo # Null

\* "If task is assigned to someone, create a notification".
CreateShouldNotify(task, user) == task.assignedTo # Null /\ task.assignedTo # user

\* The notification step of the create handler, for the task saved as id.
CreateNotify(st, user, id) ==
    IF CreateShouldNotify(st.tasks[id], user)
    THEN createNotification(st, "task-assigned", user, st.tasks[id].assignedTo, id)
    ELSE st

PostTask(st, user, body) ==
    LET doc == NewTaskDoc(CreateTaskData(user, body))
    IN  IF ~ValidCreateBody(body) THEN [st |-> st, status |-> 400, task |-> NoTask]
        ELSE IF ~SchemaValid(doc) THEN [st |-> st, status |-> 500, task |-> NoTask]
        ELSE [st |-> CreateNotify(InsertTask(st, doc), user, st.nextId),
              status |-> 201, task |-> st.nextId]

\* ApplyBody as a replacement of the document: what the body leaves out goes
\* back to the schema default.
ApplyBodyReplace(task, body) ==
    [k \in TaskKeys |-> IF Has(body, k) THEN CastPath(k, body[k])
                        ELSE IF k \in {"title", "createdBy"} THEN task[k]
                        ELSE SchemaDefault(k)]

(***************************************************************************)
(* PUT /tasks/:id                                                          *)
(***************************************************************************)
\* Object.keys(req.body).forEach(key => task[key] = req.body[key]) on the
\* schema paths.
ApplyBody(task, body) ==
    [k \in TaskKeys |-> IF Has(body, k) THEN CastPath(k, body[k]) ELSE task[k]]

\* wasCompleted without the test of task.status.
wasCompletedByBody(body, task) ==
    /\ Has(body, "status") /\ body.status = "completed"
    /\ task.isRecurring
    /\ task.recurringType # "none"

\* const wasCompleted = ..., evaluated on the task it is given.
wasCompleted(body, task) ==
    /\ Has(body, "status") /\ body.status = "completed"
    /\ task.status # "completed"
    /\ task.isRecurring
    /\ task.recurringType # "none"

\* UpdateAssignNotify without the comparison with the previous assignee.
UpdateAssignNotifyResent(body, oldAssignedTo, user) ==
    /\ Has(body, "assignedTo") /\ body.assignedTo # Null
    /\ body.assignedTo # user

\* "Create a notification if task was assigned to a new user".
UpdateAssignNotify(body, oldAssignedTo, user) ==
    /\ Has(body, "assignedTo") /\ body.assignedTo # Null
    /\ oldAssignedTo # body.assignedTo
    /\ body.assignedTo # user

\* "Create a notification if task status was updated".
UpdateStatusNotify(body, oldAssignedTo, user) ==
    /\ Has(body, "status")
    /\ oldAssignedTo # Null
    /\ oldAssignedTo # user

\* The two notifications sent after task.save().
UpdateNotify(st, user, id, body, oldAssignedTo) ==
    LET st1 == IF UpdateAssignNotify(body, oldAssignedTo, user)
               THEN createNotification(st, "task-assigned", user, body.assignedTo, id)
               ELSE st
    IN  IF UpdateStatusNotify(body, oldAssignedTo, user)
        THEN createNotification(st1, "task-updated", user, oldAssignedTo, id)
        ELSE st1

\* "Handle recurring task if completed", for the task as the handler holds it.
UpdateRecur(st, user, task, triggered) ==
    IF ~triggered THEN st
    ELSE LET r == createRecurringTask(st, task, task.recurringType)
         IN  IF r.newTask # NoTask /\ r.st.tasks[r.newTask].assignedTo # Null
             THEN createNotification(r.st, "task-assigned", user,
                                     r.st.tasks[r.newTask].assignedTo, r.newTask)
             ELSE r.st

\* The handler behind the middleware, on the task document the middleware
\* attached (req.task).
PutHandler(st, user, id, body, reqTask) ==
    LET oldAssignedTo == reqTask.assignedTo
        task == ApplyBody(reqTask, body)
        triggered == wasCompleted(body, task)
        saved == [st EXCEPT !.tasks[id] = task]
    IN  IF ~ValidUpdateBody(body) THEN [st |-> st, status |-> 400]
        ELSE IF ~SchemaValid(task) THEN [st |-> st, status |-> 500]
        ELSE [st |-> UpdateRecur(UpdateNotify(saved, user, id, body, oldAssignedTo),
                                 user, task, triggered),
              status |-> 200]

PutTask(st, user, id, body) ==
    LET gate == isTaskCreatorOrAdmin(st, user, id)
    IN  IF gate # 0 THEN [st |-> st, status |-> gate]
        ELSE PutHandler(st, user, id, body, st.tasks[id])

(***************************************************************************)
(* DELETE /tasks/:id                                                       *)
(***************************************************************************)
\* "Create notification for assigned user if applicable".
DeleteShouldNotifyAssigned(task, user) == task.assignedTo # Null

DeleteShouldNotify(task, user) == task.assignedTo # Null /\ task.assignedTo # user

DeleteNotify(st, user, reqTask) ==
    IF DeleteShouldNotify(reqTask, user)
    THEN createNotification(st, "task-deleted", user, reqTask.assignedTo, NoTask)
    ELSE st

\* Task.findByIdAndDelete(req.params.id)
RemoveTask(st, id) ==
    [st EXCEPT !.tasks = [i \in DOMAIN st.tasks \ {id} |-> st.tasks[i]]]

\* DeleteTask whose notification failure reaches the catch of the handler.
DeleteTaskAborting(st, user, id) ==
    LET gate == isTaskCreatorOrAdmin(st, user, id)
    IN  IF gate # 0 THEN [st |-> st, status |-> gate]
        ELSE IF st.down /\ DeleteShouldNotify(st.tasks[id], user)
        THEN [st |-> st, status |-> 500]
        ELSE [st |-> RemoveTask(DeleteNotify(st, user, st.tasks[id]), id),
              status |-> 200]

DeleteTask(st, user, id) ==
    LET gate == isTaskCreatorOrAdmin(st, user, id)
    IN  IF gate # 0 THEN [st |-> st, status |-> gate]
        ELSE [st |-> RemoveTask(DeleteNotify(st, user, st.tasks[id]), id),
              status |-> 200]

(***************************************************************************)
(* POST /tasks/batch-update                                                *)
(***************************************************************************)
BatchRolesAdminOnly == {"admin"}

BatchRoles == {"admin", "manager"}
allowedUpdates == {"status", "priority", "assignedTo"}

\* isValidOperation with some() in place of every().
isValidOperationSome(updates) == \E key \in DOMAIN updates : key \in allowedUpdates

\* updateKeys.every(key => allowedUpdates.includes(key))
isValidOperation(updates) == DOMAIN updates \subseteq allowedUpdates

\* Task.updateMany({ _id: { $in: taskIds } }, { $set: updates }); update
\* validators are off, the values are stored as given.
UpdateMany(st, taskIds, updates) ==
    [st EXCEPT !.tasks = [i \in DOMAIN st.tasks |->
        IF i \in Range(taskIds)
        THEN [k \in TaskKeys |-> IF Has(updates, k) THEN updates[k] ELSE st.tasks[i][k]]
        ELSE st.tasks[i]]]

\* for (const task of tasks) await createNotification(...), over the tasks
\* found, here in id order.
RECURSIVE BatchNotify(_, _, _, _)
BatchNotify(st, user, recipient, ids) ==
    IF ids = {} THEN st
    ELSE LET id == CHOOSE i \in ids : \A j \in ids : i <= j
         IN  BatchNotify(createNotification(st, "task-assigned", user, recipient, id),
                         user, recipient, ids \ {id})

\* A find that answers every task of the collection.
BatchFoundAll(st, taskIds) == DOMAIN st.tasks

\* Task.find({ _id: { $in: taskIds } }): each matching document once.
BatchFound(st, taskIds) == Range(taskIds) \cap DOMAIN st.tasks

\* "Create notifications if tasks were assigned".
BatchShouldNotify(updates) == Has(updates, "assignedTo") /\ updates.assignedTo # Null

BatchUpdate(st, user, taskIds, updates) ==
    IF ~hasRole(user, BatchRoles) THEN [st |-> st, status |-> 403]
    ELSE IF Len(taskIds) = 0 THEN [st |-> st, status |-> 400]
    ELSE IF DOMAIN updates = {} THEN [st |-> st, status |-> 400]
    ELSE IF ~isValidOperation(updates) THEN [st |-> st, status |-> 400]
    ELSE LET st1 == UpdateMany(st, taskIds, updates)
         IN  [st |-> IF BatchShouldNotify(updates)
                     THEN BatchNotify(st1, user, updates.assignedTo,
                                      BatchFound(st1, taskIds))
                     ELSE st1,
              status |-> 200]

(***************************************************************************)
(* GET /tasks/:id                                                          *)
(***************************************************************************)
\* The access check of the handler on the populated task.  Reading
\* task.createdBy._id of a creator that populate resolved to null throws,
\* which the catch turns into 500.
GetTask(st, user, id) ==
    IF id \notin DOMAIN st.tasks THEN 404
    ELSE LET task == st.tasks[id]
             creator == Populate(task.createdBy)
             assignee == Populate(task.assignedTo)
         IN  IF Role(user) = "admin" THEN 200
             ELSE IF creator = Null THEN 500
             ELSE IF creator # user /\ ~(assignee # Null /\ assignee = user) THEN 403
             ELSE 200

(***************************************************************************)
(* GET /tasks: the query object, its evaluation, sort and pagination.      *)
(***************************************************************************)
DefaultPage == 1
DefaultLimit == 10

AnyCond == [op |-> "any"]
EmptyQuery == [status |-> AnyCond, priority |-> AnyCond, or |-> AnyCond, assignedTo |-> AnyCond,
               createdBy |-> AnyCond, dueDate |-> AnyCond]

\* RestrictToVisible that keeps a $or the search filter has already set.
RestrictUnlessSearch(user, q) ==
    IF Role(user) # "admin" /\ q.or.op = "any"
    THEN [q EXCEPT !.or = [op |-> "vis", v |-> user]]
    ELSE q

\* "Non-admin users can only see tasks they created or are assigned to":
\* query.$or is set to the visibility clause.
RestrictToVisible(user, q) ==
    IF Role(user) # "admin"
    THEN [q EXCEPT !.or = [op |-> "vis", v |-> user]]
    ELSE q

\* The query as the handler builds it, assignment by assignment; a later
\* assignment to the same key of query replaces the earlier one.
BuildQuery(user, f, now) ==
    LET q1 == IF Has(f, "status") THEN [EmptyQuery EXCEPT !.status = [op |-> "eq", v |-> f.status]]
              ELSE EmptyQuery
        q2 == IF Has(f, "priority") THEN [q1 EXCEPT !.priority = [op |-> "eq", v |-> f.priority]]
              ELSE q1
        q3 == IF Has(f, "search") THEN [q2 EXCEPT !.or = [op |-> "search", v |-> f.search]]
              ELSE q2
        q4 == IF Has(f, "assignedTo")
              THEN [q3 EXCEPT !.assignedTo =
                        [op |-> "eq", v |-> IF f.assignedTo = "me" THEN user ELSE f.assignedTo]]
              ELSE q3
        q5 == IF Has(f, "createdBy")
              THEN [q4 EXCEPT !.createdBy =
                        [op |-> "eq", v |-> IF f.createdBy = "me" THEN user ELSE f.createdBy]]
              ELSE q4
        q6 == IF Has(f, "dueDate")
              THEN [q5 EXCEPT !.dueDate = [op |-> "range", lo |-> f.dueDate, hi |-> f.dueDate]]
              ELSE q5
        q7 == IF Has(f, "overdue") /\ f.overdue = "true"
              THEN [q6 EXCEPT !.dueDate = [op |-> "lt", v |-> now],
                              !.status = [op |-> "ne", v |-> "completed"]]
              ELSE q6
    IN  RestrictToVisible(user, q7)

\* One condition of the query on one document.
CondHolds(c, x) ==
    CASE c.op = "any" -> TRUE
      [] c.op = "eq" -> x = c.v
      [] c.op = "ne" -> x # c.v
      [] c.op = "range" -> x # NoDate /\ c.lo <= x /\ x <= c.hi
      [] c.op = "lt" -> x # NoDate /\ x < c.v

OrHolds(c, task) ==
    CASE c.op = "any" -> TRUE
      [] c.op = "search" -> RegexMatchI(task.title, c.v) \/ RegexMatchI(task.description, c.v)
      [] c.op = "vis" -> task.createdBy = c.v \/ task.assignedTo = c.v

\* The documents a query selects: every key of the query must hold.
Matches(task, q) ==
    /\ CondHolds(q.status, task.status)
    /\ CondHolds(q.priority, task.priority)
    /\ CondHolds(q.assignedTo, task.assignedTo)
    /\ CondHolds(q.createdBy, task.createdBy)
    /\ CondHolds(q.dueDate, task.dueDate)
    /\ OrHolds(q.or, task)

Find(st, q) == {i \in DOMAIN st.tasks : Matches(st.tasks[i], q)}

\* Sort key of a document: createdAt is the creation order, which the ids
\* follow; a missing dueDate sorts as null, before every date.
SortKey(st, i, sortBy) == IF sortBy = "dueDate" THEN st.tasks[i].dueDate ELSE i

\* key a sorts no later than key b under the sort direction.
SortsBefore(a, b, sortOrder) == IF sortOrder = "asc" THEN a <= b ELSE a >= b

\* The orders .sort(sort) may return: every arrangement of the documents
\* that is ordered by the key; documents with equal keys come in any order.
RECURSIVE SortedOrders(_, _, _, _)
SortedOrders(st, ids, sortBy, sortOrder) ==
    IF ids = {} THEN {<<>>}
    ELSE UNION {{<<i>> \o o : o \in SortedOrders(st, ids \ {i}, sortBy, sortOrder)} :
                  i \in {i \in ids : \A j \in ids :
                            SortsBefore(SortKey(st, i, sortBy), SortKey(st, j, sortBy),
                                        sortOrder)}}

\* ListSkip for 0-indexed pages.
ListSkipFromPage(page, limit) == page * limit

\* const skip = (parseInt(page) - 1) * parseInt(limit)
ListSkip(page, limit) == (page - 1) * limit

\* .skip(skip).limit(limit) on an ordered result.
PageOf(order, skip, limit) ==
    SubSeq(order, skip + 1, IF skip + limit < Len(order) THEN skip + limit ELSE Len(order))

\* Math.ceil(totalTasks / limit) for limit >= 1.
PageCount(total, limit) == (total + limit - 1) \div limit

PageParam(f) == IF Has(f, "page") THEN f.page ELSE DefaultPage
LimitParam(f) == IF Has(f, "limit") THEN f.limit ELSE DefaultLimit
SortByParam(f) == IF Has(f, "sortBy") THEN f.sortBy ELSE "createdAt"
SortOrderParam(f) == IF Has(f, "sortOrder") THEN f.sortOrder ELSE "desc"

\* The response for the documents found and one of the orders the sort may
\* produce; a negative skip is rejected by the store and surfaces as 500.
ListTasks(found, f, order) ==
    LET skip == ListSkip(PageParam(f), LimitParam(f))
    IN  IF skip < 0
        THEN [status |-> 500, items |-> <<>>, counted |-> {}, total |-> 0, pages |-> 0]
        ELSE [status |-> 200,
              items |-> PageOf(order, skip, LimitParam(f)),
              counted |-> found,
              total |-> Cardinality(found),
              pages |-> PageCount(Cardinality(found), LimitParam(f))]

(***************************************************************************)
(* Notification routes: list, mark read, mark all read, delete, unread     *)
(* count.                                                                  *)
(***************************************************************************)
\* { recipient: req.user._id }, narrowed by read=true / read=false.
NotificationQuery(st, user, f) ==
    {n \in DOMAIN st.notifications :
        /\ st.notifications[n].recipient = user
        /\ (Has(f, "read") /\ f.read = "true") => st.notifications[n].isRead
        /\ (Has(f, "read") /\ f.read = "false") => ~st.notifications[n].isRead}

\* countDocuments({ recipient: req.user._id, isRead: false })
UnreadCount(st, user) ==
    Cardinality({n \in DOMAIN st.notifications :
                    st.notifications[n].recipient = user /\ ~st.notifications[n].isRead})

\* GET /notifications: newest first, one page.
ListNotifications(st, user, f) ==
    LET found == NotificationQuery(st, user, f)
        order == CHOOSE o \in SortedOrders(st, found, "createdAt", "desc") : TRUE
        skip == ListSkip(PageParam(f), LimitParam(f))
    IN  [status |-> 200,
         items |-> PageOf(order, skip, LimitParam(f)),
         unreadCount |-> UnreadCount(st, user),
         total |-> Cardinality(found),
         pages |-> PageCount(Cardinality(found), LimitParam(f))]

\* Notification.findOne({ _id: req.params.id, recipient: req.user._id })
FindOwnNotification(st, user, id) ==
    id \in DOMAIN st.notifications /\ st.notifications[id].recipient = user

\* MarkRead that looks the notification up by _id alone.
MarkReadById(st, user, id) ==
    IF id \notin DOMAIN st.notifications THEN [st |-> st, status |-> 404]
    ELSE IF st.down THEN [st |-> st, status |-> 500]
    ELSE [st |-> [st EXCEPT !.notifications[id].isRead = TRUE], status |-> 200]

\* PUT /notifications/:id/read
MarkRead(st, user, id) ==
    IF ~FindOwnNotification(st, user, id) THEN [st |-> st, status |-> 404]
    ELSE IF st.down THEN [st |-> st, status |-> 500]
    ELSE [st |-> [st EXCEPT !.notifications[id].isRead = TRUE], status |-> 200]

\* PUT /notifications/mark-all-read
MarkAllRead(st, user) ==
    IF st.down THEN [st |-> st, status |-> 500]
    ELSE [st |-> [st EXCEPT !.notifications =
                    [n \in DOMAIN st.notifications |->
                        IF st.notifications[n].recipient = user /\ ~st.notifications[n].isRead
                        THEN [st.notifications[n] EXCEPT !.isRead = TRUE]
                        ELSE st.notifications[n]]],
          status |-> 200]

\* DELETE /notifications/:id
DeleteNotification(st, user, id) ==
    IF ~FindOwnNotification(st, user, id) THEN [st |-> st, status |-> 404]
    ELSE IF st.down THEN [st |-> st, status |-> 500]
    ELSE [st |-> [st EXCEPT !.notifications =
                    [n \in DOMAIN st.notifications \ {id} |-> st.notifications[n]]],
          status |-> 200]

(***************************************************************************)
(* State machine: requests served one at a time.                           *)
(***************************************************************************)
EmptyCollection == [i \in {} |-> 0]
Idle == [op |-> "idle"]

cur == Store(tasks, notifications, nextId, nextNid, down)

\* The notifications a request in flight has still to save.
Pending(r) ==
    IF r.op = "idle" THEN 0
    ELSE IF "todo" \in DOMAIN r THEN Len(r.todo)
    ELSE IF r.pc = "notify" THEN 1 ELSE 0

RECURSIVE PendingUpTo(_)
PendingUpTo(n) == IF n = 0 THEN 0 ELSE Pending(reqs[n]) + PendingUpTo(n - 1)

PendingNotes == PendingUpTo(Len(reqs))

\* Runs are cut where a request would create more than maxNotes notifications
\* in all.
Admitted(st, maxNotes) == st.nextNid + PendingNotes <= maxNotes + 1

\* The store after a handler ran.
Commit(st) ==
    /\ tasks' = st.tasks
    /\ notifications' = st.notifications
    /\ nextId' = st.nextId
    /\ nextNid' = st.nextNid
    /\ down' = down

Init ==
    /\ tasks = EmptyCollection
    /\ notifications = EmptyCollection
    /\ nextId = 1
    /\ nextNid = 1
    /\ down = FALSE
    /\ reqs = [s \in 1..MaxInFlight |-> Idle]
    /\ last = [op |-> "none"]

\* POST /tasks by a signed-in user.
Create(users, bodies, maxTasks, maxNotes) ==
    /\ nextId <= maxTasks
    /\ \E user \in users, body \in bodies :
          LET r == PostTask(cur, user, body)
          IN  /\ Admitted(r.st, maxNotes)
              /\ Commit(r.st)
              /\ last' = [op |-> "create", user |-> user, body |-> body,
                          status |-> r.status, task |-> r.task]
    /\ UNCHANGED reqs

\* PUT /tasks/:id
Update(bodies, maxTasks, maxNotes) ==
    /\ nextId <= maxTasks + 1
    /\ \E user \in Users, id \in 1..maxTasks, body \in bodies :
          LET r == PutTask(cur, user, id, body)
          IN  /\ Admitted(r.st, maxNotes)
              /\ Commit(r.st)
              /\ last' = [op |-> "update", user |-> user, id |-> id, body |-> body,
                          status |-> r.status]
    /\ UNCHANGED reqs

\* "Handle recurring task if completed": the block of PUT /tasks/:id that
\* calls createRecurringTask(task, task.recurringType), entered for a stored
\* task, up to the response.
Recurrence(users, maxTasks, maxNotes) ==
    /\ nextId <= maxTasks + 1
    /\ \E user \in users, id \in DOMAIN tasks \cap 1..maxTasks :
          LET task == tasks[id]
              r == createRecurringTask(cur, task, task.recurringType)
              st == UpdateRecur(cur, user, task, TRUE)
          IN  /\ Admitted(st, maxNotes)
              /\ Commit(st)
              /\ last' = [op |-> "recur", user |-> user, id |-> id,
                          newTask |-> r.newTask, status |-> 200]
    /\ UNCHANGED reqs

\* DELETE /tasks/:id
Delete(maxTasks, maxNotes) ==
    /\ \E user \in Users, id \in 1..maxTasks :
          LET r == DeleteTask(cur, user, id)
          IN  /\ Admitted(r.st, maxNotes)
              /\ Commit(r.st)
              /\ last' = [op |-> "delete", user |-> user, id |-> id, status |-> r.status]
    /\ UNCHANGED reqs

\* POST /tasks/batch-update
Batch(idLists, updateSet, maxNotes) ==
    /\ \E user \in Users, taskIds \in idLists, updates \in updateSet :
          LET r == BatchUpdate(cur, user, taskIds, updates)
          IN  /\ Admitted(r.st, maxNotes)
              /\ Commit(r.st)
              /\ last' = [op |-> "batch", user |-> user, taskIds |-> taskIds,
                          updates |-> updates, status |-> r.status]
    /\ UNCHANGED reqs

\* GET /tasks/:id
Get(maxTasks) ==
    /\ \E user \in Users, id \in 1..maxTasks :
          last' = [op |-> "get", user |-> user, id |-> id,
                   status |-> GetTask(cur, user, id)]
    /\ UNCHANGED <<tasks, notifications, nextId, nextNid, down, reqs>>

\* GET /tasks
List(filterSet, nows) ==
    /\ \E user \in Users, f \in filterSet, now \in nows :
          \E found \in {Find(cur, BuildQuery(user, f, now))} :
              \E order \in SortedOrders(cur, found, SortByParam(f), SortOrderParam(f)) :
                 LET r == ListTasks(found, f, order)
                 IN  last' = [op |-> "list", user |-> user, f |-> f, now |-> now,
                              order |-> order, status |-> r.status, items |-> r.items,
                              counted |-> r.counted, total |-> r.total, pages |-> r.pages]
    /\ UNCHANGED <<tasks, notifications, nextId, nextNid, down, reqs>>

\* GET /notifications
InboxList(filterSet) ==
    /\ \E user \in Users, f \in filterSet :
          LET r == ListNotifications(cur, user, f)
          IN  last' = [op |-> "inbox", user |-> user, f |-> f, status |-> r.status,
                       items |-> r.items, unreadCount |-> r.unreadCount,
                       total |-> r.total, pages |-> r.pages]
    /\ UNCHANGED <<tasks, notifications, nextId, nextNid, down, reqs>>

\* GET /notifications/unread-count
InboxUnreadCount ==
    /\ \E user \in Users :
          last' = [op |-> "unread-count", user |-> user, status |-> 200,
                   count |-> UnreadCount(cur, user)]
    /\ UNCHANGED <<tasks, notifications, nextId, nextNid, down, reqs>>

\* PUT /notifications/:id/read
InboxMarkRead(maxNotes) ==
    /\ \E user \in Users, id \in 1..maxNotes :
          LET r == MarkRead(cur, user, id)
          IN  /\ Commit(r.st)
              /\ last' = [op |-> "mark-read", user |-> user, id |-> id, status |-> r.status]
    /\ UNCHANGED reqs

\* PUT /notifications/mark-all-read
InboxMarkAllRead ==
    /\ \E user \in Users :
          LET r == MarkAllRead(cur, user)
          IN  /\ Commit(r.st)
              /\ last' = [op |-> "mark-all-read", user |-> user, status |-> r.status]
    /\ UNCHANGED reqs

\* DELETE /notifications/:id
InboxDelete(maxNotes) ==
    /\ \E user \in Users, id \in 1..maxNotes :
          LET r == DeleteNotification(cur, user, id)
          IN  /\ Commit(r.st)
              /\ last' = [op |-> "inbox-delete", user |-> user, id |-> id,
                          status |-> r.status]
    /\ UNCHANGED reqs

\* The Notification collection starts or stops rejecting writes.
Outage ==
    /\ down' = ~down
    /\ UNCHANGED <<tasks, notifications, nextId, nextNid, reqs, last>>

(***************************************************************************)
(* State machine: DELETE /tasks/:id one await at a time.  A request        *)
(* occupies a slot from the lookup of the middleware to its response; the  *)
(* other requests run between its awaits.                                  *)
(***************************************************************************)
\* The response of a delete request; sent is the notification it saved
\* (0 for none), assignee the assignedTo of req.task.
DeleteResponse(r, status) ==
    [op |-> "delete", user |-> r.user, id |-> r.id, status |-> status,
     sent |-> r.sent, assignee |-> r.assignee]

\* isTaskCreatorOrAdmin: await Task.findById(taskId), then next() into the
\* handler up to its first await.
DeleteAuth(s, users, maxTasks, maxNotes) ==
    /\ reqs[s].op = "idle"
    /\ \E user \in users, id \in 1..maxTasks :
          LET gate == isTaskCreatorOrAdmin(cur, user, id)
              r == [op |-> "delete", user |-> user, id |-> id, sent |-> 0,
                    pc |-> "gate", assignee |-> Null]
          IN  IF gate # 0
              THEN /\ last' = DeleteResponse(r, gate)
                   /\ UNCHANGED reqs
              ELSE /\ IF DeleteShouldNotify(tasks[id], user)
                      THEN /\ Admitted([cur EXCEPT !.nextNid = @ + 1], maxNotes)
                           /\ reqs' = [reqs EXCEPT ![s] =
                                         [r EXCEPT !.pc = "notify",
                                                   !.assignee = tasks[id].assignedTo]]
                      ELSE reqs' = [reqs EXCEPT ![s] =
                                      [r EXCEPT !.pc = "remove",
                                                !.assignee = tasks[id].assignedTo]]
                   /\ UNCHANGED last
    /\ UNCHANGED <<tasks, notifications, nextId, nextNid, down>>

\* await createNotification('task-deleted', ...)
DeleteNotifyStep(s) ==
    /\ reqs[s].op = "delete" /\ reqs[s].pc = "notify"
    /\ Commit(createNotification(cur, "task-deleted", reqs[s].user, reqs[s].assignee, NoTask))
    /\ reqs' = [reqs EXCEPT ![s] = [@ EXCEPT !.pc = "remove", !.sent = IF down THEN 0 ELSE nextNid]]
    /\ UNCHANGED last

\* await Task.findByIdAndDelete(req.params.id), then the response.
DeleteRemoveStep(s) ==
    /\ reqs[s].op = "delete" /\ reqs[s].pc = "remove"
    /\ Commit(RemoveTask(cur, reqs[s].id))
    /\ last' = DeleteResponse(reqs[s], 200)
    /\ reqs' = [reqs EXCEPT ![s] = Idle]

(***************************************************************************)
(* State machine: POST /tasks and PUT /tasks/:id one await at a time.      *)
(***************************************************************************)
\* The notifications the update handler sends after task.save(), in order.
UpdateTodo(body, oldAssignedTo, user) ==
    (IF UpdateAssignNotify(body, oldAssignedTo, user)
     THEN <<[type |-> "task-assigned", recipient |-> body.assignedTo]>> ELSE <<>>)
    \o (IF UpdateStatusNotify(body, oldAssignedTo, user)
        THEN <<[type |-> "task-updated", recipient |-> oldAssignedTo]>> ELSE <<>>)

\* An update handler that notifies before it saves.
UpdateFirstAwaitNotify(todo) == IF todo # <<>> THEN "notify" ELSE "save"

\* The first await of the update handler is task.save().
UpdateFirstAwait(todo) == "save"

\* The response of a create or update request in flight.
StepResponse(r, status) ==
    IF r.op = "create"
    THEN [op |-> "create", user |-> r.user, body |-> r.body, status |-> status,
          task |-> r.id]
    ELSE [op |-> "update", user |-> r.user, id |-> r.id, body |-> r.body,
          status |-> status]

\* The end of the handler once its notifications are sent: the recurrence
\* of an update, then the response.
Finish(s, st) ==
    LET r == reqs[s]
    IN  /\ Commit(IF r.op = "update"
                  THEN UpdateRecur(st, r.user, r.task, wasCompleted(r.body, r.task))
                  ELSE st)
        /\ last' = StepResponse(r, IF r.op = "create" THEN 201 ELSE 200)
        /\ reqs' = [reqs EXCEPT ![s] = Idle]

\* POST /tasks up to the end of await task.save().
CreateSaveStep(s, users, bodies, maxTasks, maxNotes) ==
    /\ reqs[s].op = "idle"
    /\ nextId <= maxTasks
    /\ \E user \in users, body \in bodies :
          LET doc == NewTaskDoc(CreateTaskData(user, body))
              r == [op |-> "create", pc |-> "notify", user |-> user, id |-> nextId,
                    body |-> body, task |-> doc, wrote |-> TRUE,
                    todo |-> <<[type |-> "task-assigned", recipient |-> doc.assignedTo]>>]
          IN  IF ~ValidCreateBody(body) \/ ~SchemaValid(doc)
              THEN /\ last' = [op |-> "create", user |-> user, body |-> body,
                               status |-> IF ~ValidCreateBody(body) THEN 400 ELSE 500,
                               task |-> NoTask]
                   /\ UNCHANGED <<tasks, notifications, nextId, nextNid, down, reqs>>
              ELSE IF CreateShouldNotify(doc, user)
              THEN /\ nextNid + PendingNotes + 1 <= maxNotes + 1
                   /\ Commit(InsertTask(cur, doc))
                   /\ reqs' = [reqs EXCEPT ![s] = r]
                   /\ UNCHANGED last
              ELSE /\ Commit(InsertTask(cur, doc))
                   /\ last' = StepResponse(r, 201)
                   /\ UNCHANGED reqs

\* PUT /tasks/:id: isTaskCreatorOrAdmin (await Task.findById), the
\* validators and the handler up to its first await.
UpdateAuthStep(s, users, bodies, maxTasks, maxNotes) ==
    /\ reqs[s].op = "idle"
    /\ \E user \in users, id \in 1..maxTasks, body \in bodies :
          LET gate == isTaskCreatorOrAdmin(cur, user, id)
              fail == [op |-> "update", user |-> user, id |-> id, body |-> body]
          IN  IF gate # 0 \/ ~ValidUpdateBody(body)
              THEN /\ last' = StepResponse(fail, IF gate # 0 THEN gate ELSE 400)
                   /\ UNCHANGED reqs
              ELSE LET todo == UpdateTodo(body, tasks[id].assignedTo, user)
                   IN  /\ nextNid + PendingNotes + Len(todo) <= maxNotes + 1
                       /\ reqs' = [reqs EXCEPT ![s] =
                                     [op |-> "update", pc |-> UpdateFirstAwait(todo),
                                      user |-> user, id |-> id, body |-> body,
                                      snapshot |-> tasks[id],
                                      task |-> ApplyBody(tasks[id], body),
                                      wrote |-> FALSE, todo |-> todo]]
                       /\ UNCHANGED last
    /\ UNCHANGED <<tasks, notifications, nextId, nextNid, down>>

\* await task.save() of the update handler: the modified paths are written
\* to the stored document; a document deleted meanwhile makes save throw.
UpdateSaveStep(s) ==
    /\ reqs[s].op = "update" /\ reqs[s].pc = "save"
    /\ LET r == reqs[s]
           modified == {k \in TaskKeys : r.task[k] # r.snapshot[k]}
           written == IF modified = {} THEN cur
                      ELSE [cur EXCEPT !.tasks[r.id] =
                               [k \in TaskKeys |-> IF k \in modified THEN r.task[k]
                                                   ELSE tasks[r.id][k]]]
       IN  IF ~SchemaValid(r.task) \/ (modified # {} /\ r.id \notin DOMAIN tasks)
           THEN /\ last' = StepResponse(r, 500)
                /\ reqs' = [reqs EXCEPT ![s] = Idle]
                /\ UNCHANGED <<tasks, notifications, nextId, nextNid, down>>
           ELSE IF r.todo = <<>>
           THEN Finish(s, written)
           ELSE /\ Commit(written)
                /\ reqs' = [reqs EXCEPT ![s] = [r EXCEPT !.pc = "notify", !.wrote = TRUE]]
                /\ UNCHANGED last

\* await createNotification(...) of a create or update handler.
NotifyStep(s) ==
    /\ reqs[s].op \in {"create", "update"} /\ reqs[s].pc = "notify"
    /\ LET r == reqs[s]
           sent == createNotification(cur, Head(r.todo).type, r.user,
                                      Head(r.todo).recipient, r.id)
       IN  IF Len(r.todo) = 1
           THEN Finish(s, sent)
           ELSE /\ Commit(sent)
                /\ reqs' = [reqs EXCEPT ![s] = [r EXCEPT !.todo = Tail(r.todo)]]
                /\ UNCHANGED last

ConcCreateBodies == {[title |-> <<"a">>], [title |-> <<"a">>, assignedTo |-> "u"]}

ConcUpdateBodies == {[assignedTo |-> "m"]}

NextConc ==
    \/ Create({"u"}, ConcCreateBodies, MaxTasks, MaxNotes)
    \/ Update(ConcUpdateBodies, MaxTasks, MaxNotes)
    \/ \E s \in 1..MaxInFlight : DeleteAuth(s, {"a", "u"}, MaxTasks, MaxNotes)
    \/ \E s \in 1..MaxInFlight : DeleteNotifyStep(s)
    \/ \E s \in 1..MaxInFlight : DeleteRemoveStep(s)

SpecConc == Init /\ [][NextConc]_vars

(***************************************************************************)
(* Access runs: who may read, update and delete a task.                    *)
(***************************************************************************)
TitleA == <<"a">>

AccessCreateBodies ==
    {[title |-> TitleA]} \cup {[title |-> TitleA, assignedTo |-> x] : x \in {"m", "u"}}

AccessUpdateBodies == {[priority |-> "high"], [createdBy |-> Ghost]}

NextAccess ==
    \/ Create(Users, AccessCreateBodies, MaxTasks, MaxNotes)
    \/ Update(AccessUpdateBodies, MaxTasks, MaxNotes)
    \/ Delete(MaxTasks, MaxNotes)
    \/ Get(MaxTasks)

SpecAccess == Init /\ [][NextAccess]_vars

(***************************************************************************)
(* Notification runs: the side effects of create, update, delete and batch *)
(* update.                                                                 *)
(***************************************************************************)
NotifyCreateBodies ==
    {[title |-> TitleA]} \cup {[title |-> TitleA, assignedTo |-> x] : x \in Users}

NotifyUpdateBodies ==
    {[status |-> "completed"], [assignedTo |-> "u"], [assignedTo |-> "m"]}

NotifyBatchUpdates == {[assignedTo |-> "m"], [status |-> "completed"]}

NextNotify ==
    \/ Create(Users, NotifyCreateBodies, MaxTasks, MaxNotes)
    \/ Update(NotifyUpdateBodies, MaxTasks, MaxNotes)
    \/ Delete(MaxTasks, MaxNotes)
    \/ Batch({<<1>>}, NotifyBatchUpdates, MaxNotes)

SpecNotify == Init /\ [][NextNotify]_vars

(***************************************************************************)
(* Batch runs: the role gate and the validation of POST /tasks/batch-update.*)
(***************************************************************************)
BatchCreateBodies == {[title |-> TitleA], [title |-> TitleA, assignedTo |-> "u"]}

BatchIdLists == {<<>>, <<1>>, <<1, 2>>}

BatchUpdates ==
    {EmptyCollection, [status |-> "completed"], [assignedTo |-> "m"],
     [status |-> "completed", title |-> TitleA], [createdBy |-> "m"]}

NextBatch ==
    \/ Create(Users, BatchCreateBodies, MaxTasks, MaxNotes)
    \/ Batch(BatchIdLists, BatchUpdates, MaxNotes)

SpecBatch == Init /\ [][NextBatch]_vars

(***************************************************************************)
(* Recurrence runs: recurring tasks are created and completed.             *)
(***************************************************************************)
Jan10 == 10
Jan11 == 11
Jan31 == 31

RecurCreateBodies ==
    {[title |-> TitleA, isRecurring |-> TRUE, recurringType |-> t, dueDate |-> Jan10] :
        t \in {"daily", "weekly", "monthly"}}
    \cup {[title |-> TitleA, isRecurring |-> TRUE, recurringType |-> "daily",
           dueDate |-> Jan10, recurringEndDate |-> e] : e \in {Jan10, Jan11}}
    \cup {[title |-> TitleA, isRecurring |-> TRUE, recurringType |-> "monthly", dueDate |-> Jan31],
          [title |-> TitleA, isRecurring |-> TRUE, recurringType |-> "daily",
           dueDate |-> Jan10, assignedTo |-> "u"],
          [title |-> TitleA, isRecurring |-> TRUE, recurringType |-> "daily"],
          [title |-> TitleA, dueDate |-> Jan10]}

RecurUpdateBodies == {[status |-> "completed"], [status |-> "in-progress"]}

NextRecur ==
    \/ Create(Users, RecurCreateBodies, MaxTasks, MaxNotes)
    \/ Update(RecurUpdateBodies, MaxTasks, MaxNotes)

SpecRecur == Init /\ [][NextRecur]_vars

(***************************************************************************)
(* List-filter runs: GET /tasks under every combination of the filters.    *)
(***************************************************************************)
TitleAb == <<"A", "b">>
SearchA == <<"a">>

ListCreateBodies ==
    {[title |-> TitleA],
     [title |-> TitleAb, assignedTo |-> "m", priority |-> "high", dueDate |-> Jan10]}

\* Every subset of the seven filters, one value each.
FilterValues == [status |-> "todo", priority |-> "high", search |-> SearchA,
                 assignedTo |-> "me", createdBy |-> "u", dueDate |-> Jan10,
                 overdue |-> "true"]

ListFilters == {[k \in K |-> FilterValues[k]] : K \in SUBSET DOMAIN FilterValues}

NextList ==
    \/ Create({"a", "u"}, ListCreateBodies, MaxListTasks, MaxListTasks)
    \/ List(ListFilters, {Jan11})

SpecList == Init /\ [][NextList]_vars

(***************************************************************************)
(* Pagination runs: GET /tasks with page, limit and sort parameters.       *)
(***************************************************************************)
PageParams == {EmptyCollection} \cup {[page |-> p] : p \in 1..MaxPage}
LimitParams == {EmptyCollection} \cup {[limit |-> l] : l \in 1..MaxLimit}
SortParams == {EmptyCollection, [sortOrder |-> "asc"]}

Merge(f, g) == [k \in DOMAIN f \cup DOMAIN g |-> IF k \in DOMAIN f THEN f[k] ELSE g[k]]

\* Every page, limit and direction; and a sort on a key all documents share,
\* where the store may return them in any order.
PageFilters ==
    {Merge(Merge(a, b), c) : a \in PageParams, b \in LimitParams, c \in SortParams}
    \cup {[sortBy |-> "dueDate", limit |-> 1, page |-> p] : p \in 1..MaxPage}

NextPage ==
    \/ Create({"m", "u"}, {[title |-> TitleA]}, MaxPageTasks, MaxPageTasks)
    \/ List(PageFilters, {Jan11})

SpecPage == Init /\ [][NextPage]_vars

(***************************************************************************)
(* Filter runs: GET /tasks over tasks that differ in status, due date and  *)
(* text, with every combination of five filters.                           *)
(***************************************************************************)
SearchB == <<"B">>

FilterCreateBodies ==
    {[title |-> TitleA, status |-> "in-progress", dueDate |-> Jan10],
     [title |-> TitleAb, priority |-> "high", dueDate |-> Jan10]}

FilterQueryValues == [status |-> "todo", priority |-> "high", search |-> SearchB,
                      dueDate |-> Jan10, overdue |-> "true"]

FilterQueries == {[k \in K |-> FilterQueryValues[k]] : K \in SUBSET DOMAIN FilterQueryValues}

NextFilter ==
    \/ Create({"m", "u"}, FilterCreateBodies, MaxListTasks, MaxListTasks)
    \/ List(FilterQueries, {Jan11})

SpecFilter == Init /\ [][NextFilter]_vars

(***************************************************************************)
(* Payload runs: create, update and batch update with bodies that leave    *)
(* out fields or carry values outside the enums.                           *)
(***************************************************************************)
Bogus == "bogus"

PayloadCreateBodies ==
    {[title |-> TitleA],
     [title |-> TitleA, isRecurring |-> TRUE],
     [title |-> TitleA, isRecurring |-> TRUE, recurringType |-> "daily"],
     [title |-> TitleA, status |-> Bogus]}

PayloadUpdateBodies ==
    {[recurringType |-> "none"], [isRecurring |-> TRUE], [priority |-> Bogus],
     [createdBy |-> "m"]}

PayloadBatchUpdates == {[status |-> Bogus], [priority |-> "low"]}

NextPayload ==
    \/ Create({"m", "u"}, PayloadCreateBodies, MaxTasks, MaxNotes)
    \/ Update(PayloadUpdateBodies, MaxTasks, MaxNotes)
    \/ Batch({<<1>>}, PayloadBatchUpdates, MaxNotes)

SpecPayload == Init /\ [][NextPayload]_vars

(***************************************************************************)
(* Failure runs: the requests that notify, with the Notification           *)
(* collection failing at times.                                            *)
(***************************************************************************)
FaultCreateBodies == {[title |-> TitleA], [title |-> TitleA, assignedTo |-> "m"]}

FaultUpdateBodies == {[status |-> "review"]}

FaultBatchUpdates == {[assignedTo |-> "u"]}

NextFault ==
    \/ Create({"u"}, FaultCreateBodies, MaxTasks, MaxNotes)
    \/ Update(FaultUpdateBodies, MaxTasks, MaxNotes)
    \/ Delete(MaxTasks, MaxNotes)
    \/ Batch({<<1>>}, FaultBatchUpdates, MaxNotes)
    \/ Outage

SpecFault == Init /\ [][NextFault]_vars

(***************************************************************************)
(* Inbox runs: tasks assigned to two users, and every notification route.  *)
(***************************************************************************)
InboxCreateBodies == {[title |-> TitleA, assignedTo |-> x] : x \in {"m", "u"}}

InboxFilters ==
    {EmptyCollection, [read |-> "true"], [read |-> "false"], [limit |-> 1, page |-> 2]}

NextInbox ==
    \/ Create({"m", "u"}, InboxCreateBodies, MaxInbox, MaxInbox)
    \/ InboxList(InboxFilters)
    \/ InboxUnreadCount
    \/ InboxMarkRead(MaxInbox)
    \/ InboxMarkAllRead
    \/ InboxDelete(MaxInbox)

SpecInbox == Init /\ [][NextInbox]_vars

(***************************************************************************)
(* Step runs: create and update requests interleave await by await, with   *)
(* deletes between them.                                                   *)
(***************************************************************************)
StepCreateBodies ==
    {[title |-> TitleA]} \cup {[title |-> TitleA, assignedTo |-> x] : x \in {"m", "u"}}

StepUpdateBodies == {[status |-> "review"], [assignedTo |-> "m", status |-> "review"]}

NextSteps ==
    \/ \E s \in 1..MaxInFlight : CreateSaveStep(s, {"u"}, StepCreateBodies, MaxTasks, MaxNotes)
    \/ \E s \in 1..MaxInFlight : UpdateAuthStep(s, {"a"}, StepUpdateBodies, MaxTasks, MaxNotes)
    \/ \E s \in 1..MaxInFlight : UpdateSaveStep(s)
    \/ \E s \in 1..MaxInFlight : NotifyStep(s)
    \/ Delete(MaxTasks, MaxNotes)

SpecSteps == Init /\ [][NextSteps]_vars

(***************************************************************************)
(* Status runs: updates that name a status, the stored one or another.     *)
(***************************************************************************)
StatusCreateBodies == {[title |-> TitleA], [title |-> TitleA, assignedTo |-> "u"]}

StatusUpdateBodies == {[status |-> "todo"], [status |-> "review"], [priority |-> "high"]}

NextStatus ==
    \/ Create({"m", "u"}, StatusCreateBodies, MaxTasks, MaxNotes)
    \/ Update(StatusUpdateBodies, MaxTasks, MaxNotes)

SpecStatus == Init /\ [][NextStatus]_vars

(***************************************************************************)
(* Assignment runs: updates that set, repeat and clear the assignee.       *)
(***************************************************************************)
SpecAssign ==
    /\ Init
    /\ [][\/ Create({"m", "u"},
                    {[title |-> TitleA], [title |-> TitleA, assignedTo |-> "u"]},
                    MaxTasks, MaxNotes)
          \/ Update({[assignedTo |-> "m"], [assignedTo |-> "u"], [assignedTo |-> Null]},
                    MaxTasks, MaxNotes)]_vars

(***************************************************************************)
(* Batch assignment runs: id lists that repeat an id and name absent ids.  *)
(***************************************************************************)
SpecBatchAssign ==
    /\ Init
    /\ [][\/ Create({"u"}, {[title |-> TitleA]}, MaxTasks, MaxNotes)
          \/ Batch({<<1, 1>>, <<1, 2>>, <<2>>},
                   {[assignedTo |-> "m"], [assignedTo |-> Null], [status |-> "review"],
                    [assignedTo |-> "u", priority |-> "high"]},
                   MaxNotes)]_vars

(***************************************************************************)
(* Recurrence computation runs: createRecurringTask is applied to the      *)
(* stored tasks, recurring or not, with and without a due date.            *)
(***************************************************************************)
SpecRecurrence ==
    /\ Init
    /\ [][\/ Create({"u"}, RecurCreateBodies, MaxTasks, MaxNotes)
          \/ Update(RecurUpdateBodies, MaxTasks, MaxNotes)
          \/ Recurrence({"a"}, MaxTasks, MaxNotes)]_vars

(***************************************************************************)
(* Spawn runs: every request that writes tasks, on recurring tasks that    *)
(* are completed and that are not.                                         *)
(***************************************************************************)
SpecSpawn ==
    /\ Init
    /\ [][\/ Create({"u"},
                    {[title |-> TitleA, isRecurring |-> TRUE, recurringType |-> "daily",
                      dueDate |-> Jan10],
                     [title |-> TitleA, isRecurring |-> TRUE, recurringType |-> "daily",
                      dueDate |-> Jan10, status |-> "completed"],
                     [title |-> TitleA, dueDate |-> Jan10]},
                    MaxTasks, MaxNotes)
          \/ Update({[status |-> "completed"], [status |-> "review"], [priority |-> "high"]},
                    MaxTasks, MaxNotes)
          \/ Delete(MaxTasks, MaxNotes)
          \/ Batch({<<1>>}, {[status |-> "completed"]}, MaxNotes)]_vars

(***************************************************************************)
(* Input runs: create and update with a title that is missing, blank or    *)
(* one character over the limit, a description one character over the      *)
(* limit, values outside the enums, and a createdBy of the client's own.   *)
(***************************************************************************)
SpecInput ==
    /\ Init
    /\ [][\/ Create({"m", "u"},
                    {[title |-> TitleA],
                     [title |-> TitleA, createdBy |-> "m"],
                     [title |-> <<" ", "a", " ">>, description |-> TitleA],
                     [priority |-> "high"],
                     [title |-> <<" ">>],
                     [title |-> [i \in 1..(TitleMaxLen + 1) |-> "a"]],
                     [title |-> TitleA,
                      description |-> [i \in 1..(DescriptionMaxLen + 1) |-> "a"]],
                     [title |-> TitleA, recurringType |-> Bogus]},
                    MaxTasks, MaxNotes)
          \/ Update({[title |-> <<" ">>],
                     [title |-> [i \in 1..(TitleMaxLen + 1) |-> "a"]],
                     [description |-> [i \in 1..(DescriptionMaxLen + 1) |-> "a"]],
                     [status |-> Bogus],
                     [priority |-> "high"]},
                    MaxTasks, MaxNotes)]_vars

(***************************************************************************)
(* Delete races: delete requests for one task, one await at a time.  Each  *)
(* request in flight saves at most one notification.                       *)
(***************************************************************************)
SpecRace ==
    /\ Init
    /\ [][\/ Create({"m", "u"},
                    {[title |-> TitleA], [title |-> TitleA, assignedTo |-> "m"]},
                    MaxTasks, MaxInFlight)
          \/ \E s \in 1..MaxInFlight : DeleteAuth(s, {"a", "m"}, MaxTasks, MaxInFlight)
          \/ \E s \in 1..MaxInFlight : DeleteNotifyStep(s)
          \/ \E s \in 1..MaxInFlight : DeleteRemoveStep(s)]_vars

(***************************************************************************)
(* Stale-permission runs: a task of u assigned to the manager, and updates *)
(* by the manager and by u, who takes the task back, one await at a time.  *)
(***************************************************************************)
SpecStale ==
    /\ Init
    /\ [][\/ \E s \in 1..MaxInFlight :
                CreateSaveStep(s, {"u"}, {[title |-> TitleA, assignedTo |-> "m"]},
                               MaxTasks, MaxNotes)
          \/ \E s \in 1..MaxInFlight :
                UpdateAuthStep(s, {"m", "u"},
                               {[priority |-> "high"], [assignedTo |-> "u"]},
                               MaxTasks, MaxNotes)
          \/ \E s \in 1..MaxInFlight : UpdateSaveStep(s)
          \/ \E s \in 1..MaxInFlight : NotifyStep(s)]_vars

(***************************************************************************)
(* C1: GET /tasks/:id answers 404 for an absent id; for an existing task T *)
(* it returns T (200) iff the principal is admin, T.createdBy or           *)
(* T.assignedTo, and answers 403 otherwise.                                *)
(***************************************************************************)
C1_ReadRule ==
    last.op = "get" =>
        IF last.id \notin DOMAIN tasks THEN last.status = 404
        ELSE LET T == tasks[last.id]
                 P == last.user
                 allowed == Role(P) = "admin" \/ T.createdBy = P \/ T.assignedTo = P
             IN  /\ last.status = 200 <=> allowed
                 /\ ~allowed => last.status = 403

(***************************************************************************)
(* C2: on an existing task T the update and delete handlers run for        *)
(* principal P iff P is admin, or P is T.createdBy, or P is a manager and  *)
(* T.assignedTo; every other principal is denied with 403.                 *)
(***************************************************************************)
C2_Permitted(P, T) ==
    \/ Role(P) = "admin"
    \/ T.createdBy = P
    \/ (Role(P) = "manager" /\ T.assignedTo = P)

C2_WitnessDenied ==
    /\ last.op \in {"update", "delete"} /\ last.status = 403
    /\ last.id \in DOMAIN tasks
    /\ \/ (Role(last.user) = "manager" /\ tasks[last.id].assignedTo # last.user)
       \/ (Role(last.user) = "user" /\ tasks[last.id].assignedTo = last.user)

(***************************************************************************)
(* C5: a successful create by P with assignedTo = X, X # P, persists       *)
(* exactly one notification: task-assigned, recipient X, sender P, about   *)
(* the new task; with assignedTo = P or none it persists no notification.  *)
(***************************************************************************)
C5_CreateNotifies ==
    [][(last'.op = "create" /\ last'.status = 201) =>
          LET P == last'.user
              X == IF Has(last'.body, "assignedTo") THEN last'.body.assignedTo ELSE Null
          IN  /\ last'.task \in DOMAIN tasks' \ DOMAIN tasks
              /\ IF X # Null /\ X # P
                 THEN /\ nextNid \notin DOMAIN notifications
                      /\ DOMAIN notifications' = DOMAIN notifications \cup {nextNid}
                      /\ \A n \in DOMAIN notifications : notifications'[n] = notifications[n]
                      /\ notifications'[nextNid].type = "task-assigned"
                      /\ notifications'[nextNid].recipient = X
                      /\ notifications'[nextNid].sender = P
                      /\ notifications'[nextNid].relatedTask = last'.task
                 ELSE notifications' = notifications]_vars

\* A task was created for another user, who was notified of it.
C5_Witness ==
    /\ last.op = "create" /\ last.status = 201
    /\ Has(last.body, "assignedTo") /\ last.body.assignedTo # last.user
    /\ \E n \in DOMAIN notifications :
          /\ notifications[n].relatedTask = last.task
          /\ notifications[n].recipient = last.body.assignedTo

(***************************************************************************)
(* C6: no notification has the principal that caused it as its recipient:  *)
(* sender # recipient for every Notification in the store.                 *)
(***************************************************************************)
C6_NoSelfNotification ==
    \A n \in DOMAIN notifications : notifications[n].recipient # notifications[n].sender

(***************************************************************************)
(* C8: a batch update whose updates hold a key outside status, priority,   *)
(* assignedTo is rejected with 400 and changes no Task and no Notification.*)
(***************************************************************************)
C8_OutsideAllowList(updates) == ~(DOMAIN updates \subseteq {"status", "priority", "assignedTo"})

\* The claim as stated: 400 whoever the principal is.
C8_RejectedWith400 ==
    [][(last'.op = "batch" /\ C8_OutsideAllowList(last'.updates)) =>
          /\ last'.status = 400
          /\ UNCHANGED <<tasks, notifications>>]_vars

\* C8 as amended: 400 for an admin or manager, 403 from the role gate for a
\* user; nothing is changed either way.
C8_Rejected ==
    [][(last'.op = "batch" /\ C8_OutsideAllowList(last'.updates)) =>
          /\ last'.status = IF Role(last'.user) \in {"admin", "manager"} THEN 400 ELSE 403
          /\ UNCHANGED <<tasks, notifications>>]_vars

\* A manager's batch update of an existing task, holding an allowed and a
\* forbidden key, was rejected.
C8_Witness ==
    /\ last.op = "batch" /\ last.status = 400
    /\ Role(last.user) = "manager"
    /\ C8_OutsideAllowList(last.updates)
    /\ Has(last.updates, "status")
    /\ Range(last.taskIds) \cap DOMAIN tasks # {}

(***************************************************************************)
(* C4: an authorized update that sets status to completed on a task whose  *)
(* stored status was not completed, that is recurring (daily, weekly or    *)
(* monthly), has a dueDate and whose next due date does not exceed a       *)
(* recurringEndDate, persists exactly one new task, with status todo and   *)
(* dueDate = the original dueDate plus 1 day, 7 days or 1 calendar month.  *)
(***************************************************************************)
C4_PlusPeriod(d, t) ==
    CASE t = "daily" -> d + 1
      [] t = "weekly" -> d + 7
      [] t = "monthly" -> MonthStart(MonthOf(d) + 1) + DayOfMonth(d) - 1

\* The update of this step completes task T, stored as not completed.
C4_Completes(T) ==
    /\ last'.op = "update" /\ last'.status = 200
    /\ Has(last'.body, "status") /\ last'.body.status = "completed"
    /\ T.status # "completed"
    /\ T.isRecurring /\ T.recurringType \in {"daily", "weekly", "monthly"}
    /\ T.dueDate # NoDate

C4_SpawnsOne(T) ==
    /\ Cardinality(DOMAIN tasks' \ DOMAIN tasks) = 1
    /\ \A i \in DOMAIN tasks' \ DOMAIN tasks :
          /\ tasks'[i].status = "todo"
          /\ tasks'[i].dueDate = C4_PlusPeriod(T.dueDate, T.recurringType)

C4_CompletionSpawns ==
    [][\A id \in DOMAIN tasks :
          (/\ last'.id = id
           /\ C4_Completes(tasks[id])
           /\ \/ tasks[id].recurringEndDate = NoDate
              \/ C4_PlusPeriod(tasks[id].dueDate, tasks[id].recurringType)
                    <= tasks[id].recurringEndDate)
          => C4_SpawnsOne(tasks[id])]_vars

(***************************************************************************)
(* C9: completing a recurring task whose next due date is strictly later   *)
(* than its recurringEndDate persists no new task and no notification for  *)
(* one, and the update succeeds; when the next due date equals             *)
(* recurringEndDate the occurrence is still spawned.                       *)
(***************************************************************************)
C9_SeriesEnd ==
    [][\A id \in DOMAIN tasks :
          (/\ last'.op = "update" /\ last'.id = id
           /\ Has(last'.body, "status") /\ last'.body.status = "completed"
           /\ tasks[id].status # "completed"
           /\ tasks[id].isRecurring
           /\ tasks[id].recurringType \in {"daily", "weekly", "monthly"}
           /\ tasks[id].dueDate # NoDate /\ tasks[id].recurringEndDate # NoDate
           /\ C2_Permitted(last'.user, tasks[id]))
          => /\ last'.status = 200
             /\ IF C4_PlusPeriod(tasks[id].dueDate, tasks[id].recurringType)
                      > tasks[id].recurringEndDate
                THEN /\ DOMAIN tasks' = DOMAIN tasks
                     /\ \A n \in DOMAIN notifications' \ DOMAIN notifications :
                           notifications'[n].relatedTask \in DOMAIN tasks
                ELSE Cardinality(DOMAIN tasks' \ DOMAIN tasks) = 1]_vars

(***************************************************************************)
(* C3: for a non-admin principal P and any combination of list filters,    *)
(* GET /tasks returns no task T with T.createdBy # P and T.assignedTo # P, *)
(* and the reported total counts no such task.                             *)
(***************************************************************************)
C3_VisibleTo(P, T) == T.createdBy = P \/ T.assignedTo = P

C3_ListHidesOthers ==
    (last.op = "list" /\ Role(last.user) # "admin") =>
        /\ \A k \in 1..Len(last.items) :
              /\ last.items[k] \in DOMAIN tasks
              /\ C3_VisibleTo(last.user, tasks[last.items[k]])
        /\ last.total <= Cardinality({i \in DOMAIN tasks : C3_VisibleTo(last.user, tasks[i])})
        /\ last.total = Cardinality(last.counted)
        /\ \A i \in last.counted : C3_VisibleTo(last.user, tasks[i])

\* A non-admin searched with a status filter; a task of another user has the
\* status and the text asked for, and is neither listed nor counted.
C3_Witness ==
    /\ last.op = "list" /\ last.status = 200 /\ Role(last.user) # "admin"
    /\ Has(last.f, "search") /\ Has(last.f, "status")
    /\ \E i \in DOMAIN tasks :
          /\ ~C3_VisibleTo(last.user, tasks[i])
          /\ tasks[i].status = last.f.status
          /\ RegexMatchI(tasks[i].title, last.f.search)
          /\ i \notin Range(last.items)
          /\ i \notin last.counted

(***************************************************************************)
(* C10: a list query with page p >= 1 and limit L >= 1 over a visible      *)
(* matching set of N tasks returns max(0, min(L, N - (p-1)*L)) items, those *)
(* at offsets (p-1)*L .. p*L-1 of the sorted order, with total = N and     *)
(* pages = ceil(N / L); page defaults to 1 and limit to 10.                *)
(***************************************************************************)
C10_Min(a, b) == IF a < b THEN a ELSE b
C10_Max(a, b) == IF a > b THEN a ELSE b

\* The pagination runs apply no selection filter: the matching set of
\* principal P is what P may see.
C10_VisibleSet(P) ==
    {i \in DOMAIN tasks : Role(P) = "admin" \/ tasks[i].createdBy = P \/ tasks[i].assignedTo = P}

C10_Pagination ==
    (last.op = "list" /\ last.status = 200) =>
        LET p == IF Has(last.f, "page") THEN last.f.page ELSE 1
            L == IF Has(last.f, "limit") THEN last.f.limit ELSE 10
            N == Cardinality(C10_VisibleSet(last.user))
        IN  (p >= 1 /\ L >= 1) =>
              /\ Len(last.items) = C10_Max(0, C10_Min(L, N - (p - 1) * L))
              /\ Range(last.order) = C10_VisibleSet(last.user) /\ Len(last.order) = N
              /\ \A k \in 1..Len(last.items) : last.items[k] = last.order[(p - 1) * L + k]
              /\ ~Has(last.f, "sortBy") =>
                    \A i, j \in 1..N : i < j =>
                        IF Has(last.f, "sortOrder")
                        THEN last.order[i] < last.order[j]
                        ELSE last.order[i] > last.order[j]
              /\ last.total = N
              /\ last.pages * L >= N /\ (last.pages - 1) * L < N /\ last.pages >= 0

\* Three visible tasks, limit 2, page 2: one item, two pages.
C10_Witness ==
    /\ last.op = "list" /\ last.status = 200
    /\ Has(last.f, "page") /\ last.f.page = 2
    /\ Has(last.f, "limit") /\ last.f.limit = 2
    /\ last.total = 3 /\ Len(last.items) = 1 /\ last.pages = 2

(***************************************************************************)
(* C7: a delete by P of a task whose assignedTo is A, A # P, persists the  *)
(* task-deleted notification to A before the task record is removed: the   *)
(* removal never happens with the dispatch still to come; when the         *)
(* assignee is P or absent the request creates no notification.            *)
(***************************************************************************)
C7_NotifyBeforeRemove ==
    [][\A s \in DOMAIN reqs :
          (reqs[s].op = "delete" /\ reqs'[s].op = "idle") =>
             LET P == reqs[s].user
                 A == reqs[s].assignee
             IN  /\ last' .op = "delete" /\ last'.status = 200
                 /\ reqs[s].id \notin DOMAIN tasks'
                 /\ IF A # Null /\ A # P
                    THEN /\ reqs[s].sent # 0
                         /\ reqs[s].sent < nextNid
                         /\ reqs[s].sent \in DOMAIN notifications =>
                               /\ notifications[reqs[s].sent].type = "task-deleted"
                               /\ notifications[reqs[s].sent].recipient = A
                               /\ notifications[reqs[s].sent].sender = P
                         /\ reqs[s].sent \in DOMAIN notifications
                    ELSE reqs[s].sent = 0]_vars

\* A delete by someone other than the assignee has removed the task, its
\* notification already in the store.
C7_Witness ==
    /\ last.op = "delete" /\ last.status = 200
    /\ last.assignee # Null /\ last.assignee # last.user
    /\ last.id \notin DOMAIN tasks
    /\ last.sent \in DOMAIN notifications
    /\ notifications[last.sent].type = "task-deleted"
    /\ notifications[last.sent].recipient = last.assignee

(***************************************************************************)
(* C11: every task GET /tasks returns satisfies all the supplied filters   *)
(* at once: the status asked for, the priority asked for, a dueDate on the *)
(* day asked for, the assignee and creator asked for and, with             *)
(* overdue=true, a dueDate before now and a status other than completed.   *)
(***************************************************************************)
C11_Satisfies(T, f, P, now) ==
    /\ Has(f, "status") => T.status = f.status
    /\ Has(f, "priority") => T.priority = f.priority
    /\ Has(f, "dueDate") => T.dueDate = f.dueDate
    /\ Has(f, "assignedTo") => T.assignedTo = (IF f.assignedTo = "me" THEN P ELSE f.assignedTo)
    /\ Has(f, "createdBy") => T.createdBy = (IF f.createdBy = "me" THEN P ELSE f.createdBy)
    /\ (Has(f, "overdue") /\ f.overdue = "true") =>
          (T.dueDate # NoDate /\ T.dueDate < now /\ T.status # "completed")

C11_FiltersConjoin ==
    (last.op = "list" /\ last.status = 200) =>
        \A k \in 1..Len(last.items) :
            C11_Satisfies(tasks[last.items[k]], last.f, last.user, last.now)

(***************************************************************************)
(* C12: for a non-admin principal that supplies a search string, every     *)
(* task GET /tasks returns holds the string, letter case ignored, in its   *)
(* title or its description, and is created by or assigned to the          *)
(* principal.                                                              *)
(***************************************************************************)
C12_SearchKept ==
    (last.op = "list" /\ last.status = 200 /\ Role(last.user) # "admin"
       /\ Has(last.f, "search")) =>
        \A k \in 1..Len(last.items) :
            LET T == tasks[last.items[k]]
            IN  /\ RegexMatchI(T.title, last.f.search) \/ RegexMatchI(T.description, last.f.search)
                /\ T.createdBy = last.user \/ T.assignedTo = last.user

(***************************************************************************)
(* C13: the createdBy of a task never changes after the task is created,   *)
(* whatever update or batch-update requests follow.                        *)
(***************************************************************************)
C13_CreatorImmutable ==
    [][\A id \in DOMAIN tasks \cap DOMAIN tasks' :
          tasks'[id].createdBy = tasks[id].createdBy]_vars

(***************************************************************************)
(* C14: every stored task with isRecurring = true has a recurringType      *)
(* other than none.                                                        *)
(***************************************************************************)
C14_RecurringHasType ==
    \A id \in DOMAIN tasks : tasks[id].isRecurring => tasks[id].recurringType # "none"

(***************************************************************************)
(* C18: every stored task has its status in todo, in-progress, review,     *)
(* completed and its priority in low, medium, high, urgent.                *)
(***************************************************************************)
C18_EnumsHold ==
    \A id \in DOMAIN tasks :
        /\ tasks[id].status \in {"todo", "in-progress", "review", "completed"}
        /\ tasks[id].priority \in {"low", "medium", "high", "urgent"}

(***************************************************************************)
(* C15: a create, update, delete or batch update served while the          *)
(* Notification collection rejects writes answers as it would without the  *)
(* failure, with success where it would have notified, and applies the     *)
(* same task write or removal; the notification is not persisted.          *)
(***************************************************************************)
C15_Healthy == [cur EXCEPT !.down = FALSE]

C15_Outcome(ok) ==
    /\ last'.status = ok.status
    /\ tasks' = ok.st.tasks
    /\ ok.st.notifications # notifications => last'.status \in {200, 201}
    /\ notifications' = notifications

C15_FailureSwallowed ==
    [][(down /\ down') =>
          CASE last'.op = "create" ->
                 C15_Outcome(PostTask(C15_Healthy, last'.user, last'.body))
            [] last'.op = "update" ->
                 C15_Outcome(PutTask(C15_Healthy, last'.user, last'.id, last'.body))
            [] last'.op = "delete" ->
                 C15_Outcome(DeleteTask(C15_Healthy, last'.user, last'.id))
            [] last'.op = "batch" ->
                 C15_Outcome(BatchUpdate(C15_Healthy, last'.user, last'.taskIds, last'.updates))
            [] OTHER -> TRUE]_vars

\* A task was created for another user during the failure: the task is
\* stored, the response is 201 and there is no notification.
C15_Witness ==
    /\ down
    /\ last.op = "create" /\ last.status = 201
    /\ Has(last.body, "assignedTo") /\ last.body.assignedTo # last.user
    /\ last.task \in DOMAIN tasks
    /\ tasks[last.task].assignedTo = last.body.assignedTo
    /\ notifications = EmptyCollection

(***************************************************************************)
(* C16: a notification operation by principal P returns, counts, marks     *)
(* read and deletes only notifications whose recipient is P; the           *)
(* notifications of every other recipient stay as they are, and another    *)
(* user's notification addressed by id gives 404.                          *)
(***************************************************************************)
C16_InboxOps == {"inbox", "unread-count", "mark-read", "mark-all-read", "inbox-delete"}

C16_Mine(P) == {n \in DOMAIN notifications : notifications[n].recipient = P}

C16_ScopedToRecipient ==
    [][last'.op \in C16_InboxOps =>
          LET P == last'.user
          IN  /\ \A n \in DOMAIN notifications \ C16_Mine(P) :
                    n \in DOMAIN notifications' /\ notifications'[n] = notifications[n]
              /\ last'.op = "inbox" =>
                    /\ Range(last'.items) \subseteq C16_Mine(P)
                    /\ last'.total <= Cardinality(C16_Mine(P))
                    /\ last'.unreadCount =
                          Cardinality({n \in C16_Mine(P) : ~notifications[n].isRead})
              /\ last'.op = "unread-count" =>
                    last'.count = Cardinality({n \in C16_Mine(P) : ~notifications[n].isRead})
              /\ (last'.op \in {"mark-read", "inbox-delete"}
                    /\ last'.id \in DOMAIN notifications \ C16_Mine(P)) =>
                    (last'.status = 404 /\ notifications' = notifications)]_vars

\* A user addressed the unread notification of another user by id: 404,
\* and the notification is still there, unread.
C16_Witness ==
    /\ last.op \in {"mark-read", "inbox-delete"} /\ last.status = 404
    /\ last.id \in DOMAIN notifications
    /\ notifications[last.id].recipient # last.user
    /\ ~notifications[last.id].isRead

(***************************************************************************)
(* C17: batch update is open to admin and manager only.  A principal with  *)
(* role user gets 403 and nothing changes; a well-formed batch update by   *)
(* an admin or manager succeeds and sets the given fields on every         *)
(* existing task named in taskIds, whoever created it or is assigned to    *)
(* it, leaving the other tasks alone.                                      *)
(***************************************************************************)
C17_WellFormed(taskIds, updates) ==
    /\ Len(taskIds) > 0
    /\ DOMAIN updates # {}
    /\ DOMAIN updates \subseteq {"status", "priority", "assignedTo"}

C17_BatchGate ==
    [][last'.op = "batch" =>
          IF Role(last'.user) \notin {"admin", "manager"}
          THEN last'.status = 403 /\ UNCHANGED <<tasks, notifications>>
          ELSE /\ last'.status # 403
               /\ C17_WellFormed(last'.taskIds, last'.updates) =>
                     /\ last'.status = 200
                     /\ DOMAIN tasks' = DOMAIN tasks
                     /\ \A id \in DOMAIN tasks :
                           IF id \in Range(last'.taskIds)
                           THEN \A k \in DOMAIN tasks[id] :
                                   tasks'[id][k] = IF k \in DOMAIN last'.updates
                                                   THEN last'.updates[k]
                                                   ELSE tasks[id][k]
                           ELSE tasks'[id] = tasks[id]]_vars

\* A manager completed, by batch update, a task it neither created nor is
\* assigned to.
C17_Witness ==
    /\ last.op = "batch" /\ last.status = 200 /\ Role(last.user) = "manager"
    /\ \E id \in Range(last.taskIds) \cap DOMAIN tasks :
          /\ tasks[id].createdBy # last.user
          /\ tasks[id].assignedTo # last.user
          /\ Has(last.updates, "status")
          /\ tasks[id].status = last.updates.status

(***************************************************************************)
(* C19: within a create or update request a notification is persisted only *)
(* after the task write of the request: when one of its notifications is   *)
(* saved the request has already saved its task, and the task the          *)
(* notification names has its id allocated, so it has existed.             *)
(***************************************************************************)
C19_Notifies(s) ==
    /\ reqs[s].op \in {"create", "update"}
    /\ reqs[s].pc = "notify"
    /\ reqs'[s] # reqs[s]

C19_WriteBeforeNotify ==
    [][\A s \in DOMAIN reqs :
          C19_Notifies(s) =>
             /\ reqs[s].wrote
             /\ reqs[s].id < nextId
             /\ \A n \in DOMAIN notifications' \ DOMAIN notifications :
                   /\ notifications'[n].relatedTask = reqs[s].id
                   /\ notifications'[n].type \in {"task-assigned", "task-updated"}
                   /\ notifications'[n].sender = reqs[s].user]_vars

\* An update that changes the status has saved the task and then its
\* task-updated notification, and has answered 200.
C19_Witness ==
    /\ last.op = "update" /\ last.status = 200
    /\ \E n \in DOMAIN notifications :
          /\ notifications[n].type = "task-updated"
          /\ notifications[n].relatedTask = last.id
          /\ notifications[n].sender = last.user
    /\ last.id \in DOMAIN tasks
    /\ tasks[last.id].status = last.body.status

(***************************************************************************)
(* C20: an update by P persists a task-updated notification iff the status *)
(* of the task changed in the update and the assignee before the update    *)
(* exists and is not P; the recipient is that assignee.  An update naming  *)
(* the stored status persists none.                                        *)
(***************************************************************************)
C20_StatusChangeNotifies ==
    [][(last'.op = "update" /\ last'.id \in DOMAIN tasks) =>
          LET T == tasks[last'.id]
              P == last'.user
              changed == Has(last'.body, "status") /\ last'.body.status # T.status
              new == {n \in DOMAIN notifications' \ DOMAIN notifications :
                         notifications'[n].type = "task-updated"}
          IN  /\ new # {} <=> (/\ last'.status = 200
                               /\ changed
                               /\ T.assignedTo # Null
                               /\ T.assignedTo # P)
              /\ \A n \in new : notifications'[n].recipient = T.assignedTo]_vars

(***************************************************************************)
(* C21: an update by P persists a task-assigned notification iff the       *)
(* request sets assignedTo to a user N that is not the assignee before the *)
(* update and is not P; there is one, and its recipient is N.  Repeating   *)
(* the current assignee, assigning to P and clearing the assignee persist  *)
(* none.                                                                   *)
(***************************************************************************)
C21_AssignmentNotifies ==
    [][(last'.op = "update" /\ last'.id \in DOMAIN tasks) =>
          LET T == tasks[last'.id]
              P == last'.user
              new == {n \in DOMAIN notifications' \ DOMAIN notifications :
                         notifications'[n].type = "task-assigned"}
              sets == /\ Has(last'.body, "assignedTo")
                      /\ last'.body.assignedTo # Null
                      /\ last'.body.assignedTo # T.assignedTo
                      /\ last'.body.assignedTo # P
          IN  /\ new # {} <=> (last'.status = 200 /\ sets)
              /\ Cardinality(new) <= 1
              /\ \A n \in new : /\ notifications'[n].recipient = last'.body.assignedTo
                                /\ notifications'[n].sender = P
                                /\ notifications'[n].relatedTask = last'.id]_vars

\* An update gave the task to another user, who has the notification.
C21_Witness ==
    /\ last.op = "update" /\ last.status = 200
    /\ Has(last.body, "assignedTo") /\ last.body.assignedTo \notin {Null, last.user}
    /\ last.id \in DOMAIN tasks /\ tasks[last.id].assignedTo = last.body.assignedTo
    /\ \E n \in DOMAIN notifications :
          /\ notifications[n].type = "task-assigned"
          /\ notifications[n].recipient = last.body.assignedTo
          /\ notifications[n].sender = last.user
          /\ notifications[n].relatedTask = last.id

C23_Existing == Range(last'.taskIds) \cap DOMAIN tasks

C23_New == DOMAIN notifications' \ DOMAIN notifications

C24_NoDueDateNoSpawn ==
    [][(last'.op = "recur" /\ tasks[last'.id].dueDate = NoDate) =>
          /\ last'.newTask = NoTask
          /\ tasks' = tasks /\ nextId' = nextId
          /\ notifications' = notifications
          /\ last'.status = 200]_vars

\* The computation ran for a recurring task that has no due date.
C24_Witness ==
    /\ last.op = "recur" /\ last.status = 200 /\ last.newTask = NoTask
    /\ last.id \in DOMAIN tasks
    /\ tasks[last.id].dueDate = NoDate
    /\ tasks[last.id].isRecurring /\ tasks[last.id].recurringType # "none"

(***************************************************************************)
(* C26: a task persisted by the recurrence computation is a new record     *)
(* distinct from the source: its status is todo, it copies title,          *)
(* description, priority, createdBy, assignedTo, tags, isRecurring,        *)
(* recurringType and recurringEndDate, it has the schema's fields and no   *)
(* other, and the source and every other stored task are left as they      *)
(* were.                                                                   *)
(***************************************************************************)
C26_Copied == {"title", "description", "priority", "createdBy", "assignedTo", "tags",
               "isRecurring", "recurringType", "recurringEndDate"}

C26_SpawnIsIndependent ==
    [][(last'.op = "recur" /\ last'.newTask # NoTask) =>
          /\ last'.newTask \notin DOMAIN tasks /\ last'.newTask \in DOMAIN tasks'
          /\ last'.newTask # last'.id
          /\ DOMAIN tasks' = DOMAIN tasks \cup {last'.newTask}
          /\ DOMAIN tasks'[last'.newTask] = TaskKeys
          /\ tasks'[last'.newTask].status = "todo"
          /\ \A k \in C26_Copied : tasks'[last'.newTask][k] = tasks[last'.id][k]
          /\ \A o \in DOMAIN tasks : tasks'[o] = tasks[o]]_vars

\* The computation ran for a completed task and persisted its successor; the
\* source is still completed and has its own due date.
C26_Witness ==
    /\ last.op = "recur" /\ last.newTask \in DOMAIN tasks /\ last.id \in DOMAIN tasks
    /\ tasks[last.id].status = "completed"
    /\ tasks[last.newTask].status = "todo"
    /\ tasks[last.newTask].dueDate > tasks[last.id].dueDate
    /\ tasks[last.newTask].title = tasks[last.id].title

(***************************************************************************)
(* C25: a recurrence occurrence is spawned only by an update request that  *)
(* moves a task's status from a non-completed value to completed while the *)
(* task has isRecurring = true and recurringType other than none.  No      *)
(* create, delete or batch-update request, no update that leaves the       *)
(* status or sets a non-completed one, and no update that sets completed   *)
(* on a completed task adds a spawned task.                                *)
(***************************************************************************)
\* The tasks a step added beyond the one task a create request persists.
C25_Spawned ==
    LET added == Cardinality(DOMAIN tasks' \ DOMAIN tasks)
    IN  IF last'.op = "create" /\ last'.status = 201 THEN added - 1 ELSE added

C25_SpawnOnlyOnCompletion ==
    [][C25_Spawned > 0 =>
          /\ last'.op = "update" /\ last'.status = 200
          /\ last'.id \in DOMAIN tasks
          /\ tasks[last'.id].status # "completed"
          /\ Has(last'.body, "status") /\ last'.body.status = "completed"
          /\ tasks[last'.id].isRecurring
          /\ tasks[last'.id].recurringType # "none"]_vars

\* A batch update completed the one recurring task of the store, and the
\* store still holds that task only.
C25_Witness ==
    /\ last.op = "batch" /\ last.status = 200
    /\ Has(last.updates, "status") /\ last.updates.status = "completed"
    /\ DOMAIN tasks = Range(last.taskIds)
    /\ \A id \in DOMAIN tasks :
          /\ tasks[id].status = "completed"
          /\ tasks[id].isRecurring /\ tasks[id].recurringType # "none"
          /\ nextId = id + 1

(***************************************************************************)
(* C27: an update or delete request that is denied leaves the store        *)
(* unchanged.  For an id that names no task the outcome is 404, for a task *)
(* the principal may not modify it is 403, and in both cases no Task field *)
(* is changed, no Task is removed and no Notification is created.          *)
(***************************************************************************)
C27_DeniedNoEffect ==
    [][(last'.op \in {"update", "delete"}) =>
          LET absent == last'.id \notin DOMAIN tasks
              refused == ~absent /\ ~C2_Permitted(last'.user, tasks[last'.id])
          IN  /\ absent => last'.status = 404
              /\ refused => last'.status = 403
              /\ (absent \/ refused \/ last'.status \in {403, 404}) =>
                    /\ tasks' = tasks
                    /\ notifications' = notifications]_vars

\* An update was refused with 403 and the task does not hold the value the
\* request carried.
C27_Witness ==
    /\ last.op = "update" /\ last.status = 403
    /\ last.id \in DOMAIN tasks
    /\ Has(last.body, "priority") /\ tasks[last.id].priority # last.body.priority
    /\ ~C2_Permitted(last.user, tasks[last.id])

(***************************************************************************)
(* C28: a create or update request with invalid input (a missing or empty  *)
(* title, a title longer than 100 characters, a description longer than    *)
(* 1000 characters, a status, priority or recurringType outside its        *)
(* enumeration) is rejected with 400 and mutates no state: no Task is      *)
(* created or changed and no Notification is created.  Updates are taken   *)
(* past the access gate.                                                   *)
(***************************************************************************)
C28_InvalidInput(op, body) ==
    \/ op = "create" /\ (~Has(body, "title") \/ Trim(body.title) = <<>>)
    \/ op = "update" /\ Has(body, "title") /\ Trim(body.title) = <<>>
    \/ Has(body, "title") /\ Len(body.title) > 100
    \/ Has(body, "description") /\ Len(body.description) > 1000
    \/ Has(body, "status") /\ body.status \notin StatusEnum
    \/ Has(body, "priority") /\ body.priority \notin PriorityEnum
    \/ Has(body, "recurringType") /\ body.recurringType \notin RecurringEnum

C28_InvalidRejected ==
    [][(/\ last'.op \in {"create", "update"}
        /\ C28_InvalidInput(last'.op, last'.body)
        /\ last'.op = "update" => last'.status \notin {403, 404}) =>
          /\ last'.status = 400
          /\ tasks' = tasks
          /\ notifications' = notifications]_vars

(***************************************************************************)
(* C29: every task persisted by POST /tasks has createdBy equal to the     *)
(* requesting principal, for every request body, including a body that     *)
(* names another createdBy.                                                *)
(***************************************************************************)
C29_CreatorIsPrincipal ==
    [][(last'.op = "create" /\ last'.status = 201) =>
          /\ last'.task \in DOMAIN tasks' \ DOMAIN tasks
          /\ tasks'[last'.task].createdBy = last'.user]_vars

\* A task was created from a body that names another user as createdBy.
C29_Witness ==
    /\ last.op = "create" /\ last.status = 201
    /\ Has(last.body, "createdBy") /\ last.body.createdBy # last.user
    /\ last.task \in DOMAIN tasks
    /\ tasks[last.task].createdBy = last.user

(***************************************************************************)
(* C30: under any interleaving of concurrent delete requests for the same  *)
(* task (assignee A, deleters other than A), at most one task-deleted      *)
(* notification is persisted per task that is removed: once every request  *)
(* has answered, the store holds no more task-deleted notifications than   *)
(* tasks were removed.                                                     *)
(***************************************************************************)
C30_Removed == (nextId - 1) - Cardinality(DOMAIN tasks)

C30_OneNoticePerRemoval ==
    (\A s \in DOMAIN reqs : reqs[s].op = "idle") =>
        Cardinality({n \in DOMAIN notifications :
                        notifications[n].type = "task-deleted"}) <= C30_Removed

(***************************************************************************)
(* C31: under any interleaving of concurrent requests, every update that   *)
(* takes effect is permitted by the authorization rule evaluated on the    *)
(* task as stored at the moment the write is applied: a manager authorized *)
(* as assignee has no update applied after another request has reassigned  *)
(* the task away from the manager.                                         *)
(***************************************************************************)
C31_WritePermittedAtWrite ==
    [][\A s \in DOMAIN reqs :
          (/\ reqs[s].op = "update" /\ reqs[s].pc = "save"
           /\ reqs'[s] # reqs[s]
           /\ tasks' # tasks) =>
              /\ reqs[s].id \in DOMAIN tasks
              /\ C2_Permitted(reqs[s].user, tasks[reqs[s].id])]_vars

====
